---- MODULE Spec2Model ----
(***************************************************************************)
(* State-machine model of UnifiedFinanceCSV.py, a Streamlit page.          *)
(*                                                                         *)
(* Every user interaction (upload, removal of the upload, a change of the  *)
(* state or year selector) re-executes the script from top to bottom; one  *)
(* action of the model is one interaction together with the whole script   *)
(* run it triggers.  The session keeps the uploaded file, the st.cache_data*)
(* store of load_data and the widget values; everything else is rebuilt by *)
(* each run and recorded in `run`.                                         *)
(***************************************************************************)
EXTENDS Integers, Sequences, FiniteSets, TLC

VARIABLES
    uploaded_file,  \* value of st.file_uploader: None or <<UploadedFile>>
    cache,          \* st.cache_data store of load_data: key -> [value, msgs]
    parse_count,    \* history: key -> number of executions of pd.read_csv for it
    widgets,        \* session widget values of the selectbox and the select_slider
    run,            \* outcome of the latest script run
    prev,           \* summary of the run before the latest one
    uploads,        \* number of uploads made in the session
    rank_df,        \* input of a direct call of plot_revenue_rankings
    rank_year,      \* input of a direct call of plot_revenue_rankings
    rank_out,       \* result of that call
    trend_df,       \* input of a direct call of plot_expenditure_trends
    trend_state,    \* input of a direct call of plot_expenditure_trends
    trend_out       \* result of that call

vars == <<uploaded_file, cache, parse_count, widgets, run, prev, uploads,
          rank_df, rank_year, rank_out, trend_df, trend_state, trend_out>>

(***************************************************************************)
(* Bounds of the model.                                                    *)
(***************************************************************************)
\* longest table (rows) of a file uploaded in the single-upload sessions
MaxRows == 2
\* uploads per session in the multi-upload sessions
MaxUploads == 2
\* executions of pd.read_csv for one key before its result is stored
MaxParses == 2
\* most distinct states of a table handed to plot_revenue_rankings directly
MaxRankStates == 21
\* longest table (rows) handed to plot_expenditure_trends directly
MaxTrendRows == 18

States == {1, 2}
Years == {2020, 2021}
RevenueValues == {100, 120}
ExpenditureValues == {80}
HealthValues == {30}
EducationValues == {40}

(***************************************************************************)
(* Program constants.                                                      *)
(***************************************************************************)
health_col == "Details.Health.Health Total Expenditure"
edu_col == "Details.Education.Education Total"
revenue_col == "Totals.Revenue"
expenditure_col == "Totals.Expenditure"
id_vars == {"State", "Year"}
value_vars == <<revenue_col, expenditure_col>>
\* state_revenues.head(10)
HeadN == 10
\* state_revenues.tail(10)
TailN == 10

NumericCols == {revenue_col, expenditure_col, health_col, edu_col}

(***************************************************************************)
(* Python values.  An optional value is a sequence of length 0 or 1.       *)
(***************************************************************************)
None == <<>>
Some(x) == <<x>>
NoException == "none"

(***************************************************************************)
(* Generic helpers.                                                        *)
(***************************************************************************)
Range(s) == {s[i] : i \in DOMAIN s}

Min2(a, b) == IF a <= b THEN a ELSE b

Max2(a, b) == IF a >= b THEN a ELSE b

SetMax(S) == CHOOSE m \in S : \A x \in S : x <= m

SetMin(S) == CHOOSE m \in S : \A x \in S : m <= x

RECURSIVE SumSeq(_)
SumSeq(s) == IF s = <<>> THEN 0 ELSE s[1] + SumSeq(Tail(s))

RECURSIVE GCD(_, _)
GCD(a, b) == IF b = 0 THEN a ELSE GCD(b, a % b)

\* the sequences over S of length at most n
SeqUpTo(S, n) == UNION {[1..k -> S] : k \in 0..n}

(***************************************************************************)
(* Uploaded files.  A file is the text of a CSV: a header (the column      *)
(* names) and the data lines (the fields of each line, in header order).   *)
(***************************************************************************)
ColumnOrder == <<"State", "Year", revenue_col, expenditure_col, health_col, edu_col>>

ColumnValues(c) ==
    CASE c = "State" -> States
      [] c = "Year" -> Years
      [] c = revenue_col -> RevenueValues
      [] c = expenditure_col -> ExpenditureValues
      [] c = health_col -> HealthValues
      [] c = edu_col -> EducationValues

\* the header of a file that has the two id columns and the numeric columns cols
Header(cols) == SelectSeq(ColumnOrder, LAMBDA c : c \in id_vars \cup cols)

\* the data lines a header admits: one value per column, each from the column's values
RECURSIVE LinesOf(_)
LinesOf(header) ==
    IF header = <<>> THEN {<<>>}
    ELSE {Append(l, v) : l \in LinesOf(SubSeq(header, 1, Len(header) - 1)),
                         v \in ColumnValues(header[Len(header)])}

\* the well-formed files with at most n data lines: all numeric columns, all but
\* one of them, or none
CsvFiles(n) ==
    UNION {{[header |-> Header(cols), lines |-> ls] : ls \in SeqUpTo(LinesOf(Header(cols)), n)} :
              cols \in {c \in SUBSET NumericCols : c = {} \/ Cardinality(NumericCols \ c) <= 1}}

\* a zero-byte file: pandas raises EmptyDataError
EmptyFile == [header |-> <<>>, lines |-> <<>>]

\* a file whose second data line has more fields than the header: pandas raises ParserError
RaggedFile == [header |-> <<"State", "Year">>, lines |-> <<<<1, 2020>>, <<1, 2020, 100>>>>]

MalformedFiles == {EmptyFile, RaggedFile}

\* the names files are uploaded under
Names == {"a.csv", "b.csv"}

\* the UploadedFile st.file_uploader hands to a run: a fresh buffer over the
\* upload, under its name, positioned at the start
UploadedFile(name, file) ==
    [name |-> name, position |-> 0, header |-> file.header, lines |-> file.lines]

\* the key st.cache_data derives from an UploadedFile argument: its name, its
\* read position and its content
CacheKey(file) ==
    [name |-> file.name, position |-> file.position,
     value |-> [header |-> file.header, lines |-> file.lines]]

\* the files a single-upload session may upload
Files == MalformedFiles \cup CsvFiles(MaxRows)

\* the files of the multi-upload sessions: a malformed one, and complete tables
\* with a 2020 row of state 1 and a row of state 2 (which gives the selectors
\* something to change)
SessionFiles ==
    {EmptyFile} \cup
    {[header |-> ColumnOrder, lines |-> <<a, b>>] :
        <<a, b>> \in {p \in LinesOf(ColumnOrder) \X LinesOf(ColumnOrder) :
                        p[1][3] = 100 /\ p[2][3] = 100 /\ p[1][1] < p[2][1] /\ p[1][2] = 2020}}

(***************************************************************************)
(* pandas.                                                                 *)
(***************************************************************************)
\* pd.read_csv raises on an empty file and on a line longer than the header
read_csv_raises(file) ==
    \/ file.header = <<>>
    \/ \E i \in DOMAIN file.lines : Len(file.lines[i]) > Len(file.header)

\* pd.read_csv: the DataFrame of a well-formed file, one row (column -> value) per line
read_csv(file) ==
    [columns |-> Range(file.header),
     rows |-> [i \in DOMAIN file.lines |->
                 [c \in Range(file.header) |->
                     file.lines[i][CHOOSE k \in DOMAIN file.header : file.header[k] = c]]]]

\* df[col] as the sequence of its values
Column(rows, col) == [i \in DOMAIN rows |-> rows[i][col]]

\* Series.unique(): the distinct values in order of first appearance
RECURSIVE unique(_)
unique(s) ==
    IF s = <<>> THEN <<>>
    ELSE LET p == unique(SubSeq(s, 1, Len(s) - 1))
         IN  IF s[Len(s)] \in Range(p) THEN p ELSE Append(p, s[Len(s)])

\* sorted() left out: the list as it is
unsorted(s) == s

\* Python's sorted() on a list of integers
RECURSIVE sorted(_)
sorted(s) ==
    IF s = <<>> THEN <<>>
    ELSE LET m == SetMin(Range(s))
             i == CHOOSE k \in DOMAIN s : s[k] = m
         IN  <<m>> \o sorted(SubSeq(s, 1, i - 1) \o SubSeq(s, i + 1, Len(s)))

\* the orders (sequences of the indices I) that are non-decreasing in keys
RECURSIVE Orders(_, _)
Orders(keys, I) ==
    IF I = {} THEN {<<>>}
    ELSE UNION {{<<i>> \o t : t \in Orders(keys, I \ {i})} :
                   i \in {j \in I : \A l \in I : keys[j] <= keys[l]}}

\* sort_values left out: the rows as they are
sort_values_skipped(rows, keys, ascending) == {rows}

\* sort_values with the default kind="quicksort", which is not stable: every
\* arrangement of the rows that is ordered by the keys is a possible result
sort_values(rows, keys, ascending) ==
    LET k == [i \in DOMAIN rows |-> IF ascending THEN keys[i] ELSE 0 - keys[i]]
    IN  {[i \in DOMAIN rows |-> rows[p[i]]] : p \in Orders(k, DOMAIN rows)}

\* Series.head(n)
head(s, n) == SubSeq(s, 1, Min2(n, Len(s)))

\* tail() taking one entry too many
tail_one_more(s, n) == SubSeq(s, Max2(1, Len(s) - n), Len(s))

\* Series.tail(n)
tail(s, n) == SubSeq(s, Max2(1, Len(s) - n + 1), Len(s))

\* pd.melt(df, id_vars, value_vars, var_name='Metric', value_name='Amount'):
\* one block of rows per value column, in value_vars order
melt(rows) ==
    LET n == Len(rows)
    IN  [i \in 1..(n * Len(value_vars)) |->
            LET v == value_vars[((i - 1) \div n) + 1]
                r == rows[((i - 1) % n) + 1]
            IN  [State |-> r["State"], Year |-> r["Year"], Metric |-> v, Amount |-> r[v]]]

\* str.replace('Totals.', '', regex=False) on the two metric names
strip_totals(metric) ==
    CASE metric = revenue_col -> "Revenue"
      [] metric = expenditure_col -> "Expenditure"
      [] OTHER -> metric

\* the mean of a non-empty list of integers, as a fraction in lowest terms
Mean(vals) ==
    LET s == SumSeq(vals)
        n == Len(vals)
        g == GCD(s, n)
    IN  [num |-> s \div g, den |-> n \div g]

\* sns.barplot(x='Metric', y='Amount'): one bar per metric in order of appearance,
\* its height the default estimator (the mean) of the metric's amounts
barplot(data) ==
    LET cats == unique(Column(data, "Metric"))
    IN  [i \in DOMAIN cats |->
            [Metric |-> cats[i],
             Amount |-> Mean(Column(SelectSeq(data, LAMBDA r : r.Metric = cats[i]), "Amount"))]]

\* sns.lineplot(x='Year', y=col, data=data) with its defaults sort=True and
\* estimator='mean': one point per distinct Year in ascending order, at the mean
\* of the y values of that Year's rows; a Year with several rows gets an error
\* band around its point (the band's extent is bootstrapped and not modelled)
lineplot(data, col) ==
    LET xs == sorted(unique(Column(data, "Year")))
    IN  [i \in DOMAIN xs |->
            LET vals == Column(SelectSeq(data, LAMBDA r : r["Year"] = xs[i]), col)
            IN  [Year |-> xs[i], Amount |-> Mean(vals), band |-> Len(vals) > 1]]

\* df.groupby('State')[col].sum(): one entry per state, in ascending state order
groupby_sum(rows, col) ==
    LET keys == sorted(unique(Column(rows, "State")))
    IN  [i \in DOMAIN keys |->
            [State |-> keys[i],
             Revenue |-> SumSeq(Column(SelectSeq(rows, LAMBDA r : r["State"] = keys[i]), col))]]

(***************************************************************************)
(* Streamlit messages and the result of a view: the messages it emitted,   *)
(* the charts it handed to st.pyplot, and the exception it raised, if any. *)
(***************************************************************************)
Msg(kind, text, args) == [kind |-> kind, text |-> text, args |-> args]

Returned(msgs, charts) == [called |-> TRUE, msgs |-> msgs, charts |-> charts, raised |-> NoException]

Raised(exc) == [called |-> TRUE, msgs |-> <<>>, charts |-> <<>>, raised |-> exc]

NotCalled == [called |-> FALSE, msgs |-> <<>>, charts |-> <<>>, raised |-> NoException]

(***************************************************************************)
(* The three views.  Each is the set of results the call can have (the     *)
(* order of tied rows after sort_values is not determined).                *)
(***************************************************************************)
plot_revenue_vs_expenditure(df, state, year) ==
    IF ~(Range(value_vars) \subseteq df.columns)
    THEN {Raised("KeyError")}
    ELSE LET melted == melt(df.rows)
             df_melted == [i \in DOMAIN melted |->
                              [melted[i] EXCEPT !.Metric = strip_totals(melted[i].Metric)]]
             filtered_data == SelectSeq(df_melted, LAMBDA r : r.State = state /\ r.Year = year)
         IN  IF filtered_data = <<>>
             THEN {Returned(<<Msg("warning", "No data available for state in year", <<state, year>>)>>, <<>>)}
             ELSE {Returned(<<>>, <<barplot(filtered_data)>>)}

\* plot_expenditure_trends without its column check: the chart call fails on the
\* absent column
plot_expenditure_trends_unchecked(df, state) ==
    LET of_state == SelectSeq(df.rows, LAMBDA r : r["State"] = state)
    IN  {IF state_data = <<>>
         THEN Returned(<<Msg("warning", "No data available for the state", <<state>>)>>, <<>>)
         ELSE IF health_col \notin df.columns \/ edu_col \notin df.columns
         THEN Raised("ValueError")
         ELSE Returned(<<>>, <<[y |-> health_col, data |-> state_data,
                                points |-> lineplot(state_data, health_col)],
                               [y |-> edu_col, data |-> state_data,
                                points |-> lineplot(state_data, edu_col)]>>) :
            state_data \in sort_values(of_state, Column(of_state, "Year"), TRUE)}

plot_expenditure_trends(df, state) ==
    IF health_col \notin df.columns \/ edu_col \notin df.columns
    THEN {Returned(<<Msg("error", "Required expenditure columns not found", <<>>)>>, <<>>)}
    ELSE LET of_state == SelectSeq(df.rows, LAMBDA r : r["State"] = state)
         IN  {IF state_data = <<>>
              THEN Returned(<<Msg("warning", "No data available for the state", <<state>>)>>, <<>>)
              ELSE Returned(<<>>, <<[y |-> health_col, data |-> state_data,
                                     points |-> lineplot(state_data, health_col)],
                                    [y |-> edu_col, data |-> state_data,
                                     points |-> lineplot(state_data, edu_col)]>>) :
                 state_data \in sort_values(of_state, Column(of_state, "Year"), TRUE)}

plot_revenue_rankings(df, year) ==
    LET df_year == SelectSeq(df.rows, LAMBDA r : r["Year"] = year)
    IN  IF df_year = <<>>
        THEN {Returned(<<Msg("warning", "No data available for the year", <<year>>)>>, <<>>)}
        ELSE IF revenue_col \notin df.columns
        THEN {Raised("KeyError")}
        ELSE LET sums == groupby_sum(df_year, revenue_col)
             IN  UNION {
                   LET top_10_states == head(state_revenues, HeadN)
                       last_10 == tail(state_revenues, TailN)
                   IN  {Returned(<<>>, <<[top |-> top_10_states, bottom |-> bottom_10_states]>>) :
                          bottom_10_states \in sort_values(last_10, Column(last_10, "Revenue"), TRUE)} :
                   state_revenues \in sort_values(sums, Column(sums, "Revenue"), FALSE)}

(***************************************************************************)
(* Data loading.                                                           *)
(***************************************************************************)
\* load_data without its decorator: the table, or None and an error message
load_data(file) ==
    IF read_csv_raises(file)
    THEN [value |-> None, msgs |-> <<Msg("error", "Error loading data", <<>>)>>]
    ELSE [value |-> Some(read_csv(file)), msgs |-> <<>>]

\* the executions of pd.read_csv counted so far for a key
Parses(pc, k) == IF k \in DOMAIN pc THEN pc[k] ELSE 0

\* the history after one more execution of pd.read_csv for key k
Counted(pc, k) == [x \in DOMAIN pc \cup {k} |-> IF x = k THEN Parses(pc, k) + 1 ELSE pc[x]]

\* load_data without memoization: executed on every run
uncached_load_data(file, c, pc) ==
    [entry |-> load_data(file),
     cache |-> [k \in DOMAIN c \cup {CacheKey(file)} |->
                  IF k = CacheKey(file) THEN load_data(file) ELSE c[k]],
     parse_count |-> Counted(pc, CacheKey(file))]

\* @st.cache_data: the stored entry (return value and messages to replay) when the
\* key was seen before; otherwise load_data is executed and its entry stored
cached_load_data(file, c, pc) ==
    IF CacheKey(file) \in DOMAIN c
    THEN [entry |-> c[CacheKey(file)], cache |-> c, parse_count |-> pc]
    ELSE [entry |-> load_data(file),
          cache |-> [k \in DOMAIN c \cup {CacheKey(file)} |->
                       IF k = CacheKey(file) THEN load_data(file) ELSE c[k]],
          parse_count |-> Counted(pc, CacheKey(file))]

(***************************************************************************)
(* Widgets.  A widget keeps the user's value from run to run as long as it *)
(* is rendered with the same options; otherwise it shows its default.      *)
(***************************************************************************)
NoWidgets == [state |-> None, year |-> None]

\* st.selectbox(label, options): None for no options, else the kept value or options[0]
selectbox(widget, options) ==
    IF options = <<>> THEN None
    ELSE IF widget # None /\ widget[1].options = options THEN Some(widget[1].value)
    ELSE Some(options[1])

\* st.select_slider(label, options=options, value=value)
select_slider(widget, options, value) ==
    IF widget # None /\ widget[1].options = options THEN widget[1].value ELSE value

(***************************************************************************)
(* The script.                                                             *)
(***************************************************************************)
EmptyRun ==
    [sidebar |-> <<>>, bound |-> {}, df |-> None, states |-> <<>>, years |-> <<>>,
     selected_state |-> None, selected_year |-> None, default_year |-> None,
     status |-> "completed", exception |-> NoException, tabs_reached |-> FALSE,
     tab1 |-> NotCalled, tab2 |-> NotCalled, tab3 |-> NotCalled]

\* lines 197-213: the three tabs, given the names the sidebar has bound
Tabs(r) ==
    IF "selected_state" \notin r.bound
    THEN {[r EXCEPT !.tabs_reached = TRUE, !.status = "exception", !.exception = "NameError"]}
    ELSE LET df == r.df[1]
             selected_state == r.selected_state[1]
             selected_year == r.selected_year[1]
         IN  UNION {
               IF t1.raised # NoException
               THEN {[r EXCEPT !.tabs_reached = TRUE, !.tab1 = t1,
                               !.status = "exception", !.exception = t1.raised]}
               ELSE UNION {
                      IF t2.raised # NoException
                      THEN {[r EXCEPT !.tabs_reached = TRUE, !.tab1 = t1, !.tab2 = t2,
                                      !.status = "exception", !.exception = t2.raised]}
                      ELSE {[r EXCEPT !.tabs_reached = TRUE, !.tab1 = t1, !.tab2 = t2, !.tab3 = t3,
                                      !.status = IF t3.raised # NoException
                                                 THEN "exception" ELSE "completed",
                                      !.exception = t3.raised] :
                               t3 \in plot_revenue_rankings(df, selected_year)} :
                      t2 \in plot_expenditure_trends(df, selected_state)} :
               t1 \in plot_revenue_vs_expenditure(df, selected_state, selected_year)}

\* lines 176-194: the sidebar.  The result carries the run so far, the widgets the
\* run rendered, the cache, and whether the run goes on to the tabs.
Sidebar(file, c, pc, w) ==
    IF file = None
    THEN [run |-> [EmptyRun EXCEPT !.sidebar = <<Msg("info", "Awaiting for a CSV file to be uploaded.", <<>>)>>,
                                   !.status = "stopped"],
          widgets |-> NoWidgets, cache |-> c, parse_count |-> pc, continues |-> FALSE]
    ELSE LET l == cached_load_data(file[1], c, pc)
             df == l.entry.value
             loaded == [EmptyRun EXCEPT !.sidebar = l.entry.msgs, !.bound = {"df"}, !.df = df]
         IN  IF df = None
             THEN [run |-> loaded, widgets |-> NoWidgets,
                   cache |-> l.cache, parse_count |-> l.parse_count, continues |-> TRUE]
             ELSE LET states == sorted(unique(Column(df[1].rows, "State")))
                      years == sorted(unique(Column(df[1].rows, "Year")))
                      selected_state == selectbox(w.state, states)
                      wstate == IF selected_state = None THEN None
                                ELSE Some([options |-> states, value |-> selected_state[1]])
                      resolved == [loaded EXCEPT
                                      !.sidebar = l.entry.msgs \o <<Msg("success", "File loaded successfully!", <<>>)>>,
                                      !.bound = {"df", "states", "years", "selected_state"},
                                      !.states = states, !.years = years,
                                      !.selected_state = selected_state]
                  IN  IF years = <<>>
                      THEN \* years[-1] raises IndexError
                           [run |-> [resolved EXCEPT !.status = "exception", !.exception = "IndexError"],
                            widgets |-> [state |-> wstate, year |-> None],
                            cache |-> l.cache, parse_count |-> l.parse_count, continues |-> FALSE]
                      ELSE LET default_year == years[Len(years)]
                               selected_year == select_slider(w.year, years, default_year)
                           IN  [run |-> [resolved EXCEPT
                                            !.bound = @ \cup {"selected_year"},
                                            !.default_year = Some(default_year),
                                            !.selected_year = Some(selected_year)],
                                widgets |-> [state |-> wstate,
                                             year |-> Some([options |-> years, value |-> selected_year])],
                                cache |-> l.cache, parse_count |-> l.parse_count, continues |-> TRUE]

\* one execution of the script from top to bottom: the set of its possible outcomes
Script(file, c, pc, w) ==
    LET sb == Sidebar(file, c, pc, w)
    IN  {[run |-> r, widgets |-> sb.widgets, cache |-> sb.cache, parse_count |-> sb.parse_count] :
           r \in IF sb.continues THEN Tabs(sb.run) ELSE {sb.run}}

\* a run cut short at one of its st.* calls
Cut(r) == [r EXCEPT !.status = "aborted", !.exception = NoException]

\* a view that was entered and has emitted nothing yet
Entered == Returned(<<>>, <<>>)

\* the tabs of a run that would end as `t`, cut short at an st.* call of lines
\* 198-213 or of a view: before a view is called, inside a view before its first
\* output, or between the two charts of plot_expenditure_trends
TabCuts(sbrun, t) ==
    LET reached == [sbrun EXCEPT !.tabs_reached = TRUE]
        in1 == [reached EXCEPT !.tab1 = Entered]
        done1 == [reached EXCEPT !.tab1 = t.tab1]
        in2 == [done1 EXCEPT !.tab2 = Entered]
        half2 == [done1 EXCEPT !.tab2 = Returned(<<>>, <<t.tab2.charts[1]>>)]
        done2 == [done1 EXCEPT !.tab2 = t.tab2]
        in3 == [done2 EXCEPT !.tab3 = Entered]
    IN  {sbrun}
        \cup (IF "selected_state" \in sbrun.bound THEN {reached} ELSE {})
        \cup (IF t.tab1.called /\ t.tab1.raised = NoException THEN {in1, done1} ELSE {})
        \cup (IF t.tab2.called /\ t.tab2.raised = NoException THEN {in2, done2} ELSE {})
        \cup (IF Len(t.tab2.charts) = 2 THEN {half2} ELSE {})
        \cup (IF t.tab3.called /\ t.tab3.raised = NoException THEN {in3} ELSE {})

\* one execution of the script that the next interaction supersedes: the script is
\* stopped at the st.* call it reaches next (the stop is no Exception, so load_data
\* does not catch it), what it did before stays, and the widgets it did not reach
\* stay on the page as they were
CutRuns(sb, file, c, pc, w) ==
    LET start == [run |-> Cut(EmptyRun), widgets |-> w, cache |-> c, parse_count |-> pc]
    IN  IF file = None THEN {start}
        ELSE LET key == CacheKey(file[1])
                 loaded == [EmptyRun EXCEPT !.sidebar = sb.run.sidebar, !.bound = {"df"}, !.df = sb.run.df]
                 \* at the closing element of st.cache_data's spinner: load_data has
                 \* returned (its messages are out) and its entry is stored or was
                 \* found, df is not yet bound
                 at_spinner == [run |-> Cut([EmptyRun EXCEPT !.sidebar = IF sb.run.df = None
                                                                         THEN sb.run.sidebar ELSE <<>>]),
                                widgets |-> w, cache |-> sb.cache, parse_count |-> sb.parse_count]
             IN  IF sb.run.df = None
                 THEN {start, at_spinner}
                      \* at st.error inside load_data: read_csv ran, nothing is stored
                      \cup (IF key \notin DOMAIN c
                            THEN {[start EXCEPT !.parse_count = Counted(pc, key)]} ELSE {})
                      \* at st.tabs
                      \cup {[run |-> Cut(loaded), widgets |-> w,
                             cache |-> sb.cache, parse_count |-> sb.parse_count]}
                 ELSE LET at_success == [loaded EXCEPT !.sidebar = <<>>]
                          at_selectbox == [sb.run EXCEPT !.bound = {"df", "states", "years"},
                                                         !.selected_state = None,
                                                         !.selected_year = None,
                                                         !.default_year = None]
                          at_slider == [sb.run EXCEPT !.bound = {"df", "states", "years", "selected_state"},
                                                      !.selected_year = None,
                                                      !.default_year = None]
                          out(r, wd) == [run |-> Cut(r), widgets |-> wd,
                                         cache |-> sb.cache, parse_count |-> sb.parse_count]
                      IN  {start, at_spinner, out(at_success, w), out(at_selectbox, w)}
                          \cup (IF sb.continues
                                THEN {out(at_slider, [state |-> sb.widgets.state, year |-> w.year])}
                                     \cup {out(r, sb.widgets) :
                                              r \in UNION {TabCuts(sb.run, t) : t \in Tabs(sb.run)}}
                                ELSE {})

\* the superseded executions of the script for the sidebar outcome of this run
Superseded(file, c, pc, w) == CutRuns(Sidebar(file, c, pc, w), file, c, pc, w)

(***************************************************************************)
(* Direct calls of plot_revenue_rankings on tables of many states.         *)
(***************************************************************************)
RankYears == {2021, 2022}

RankRow(state, year, revenue) ==
    [c \in {"State", "Year", revenue_col} |->
        CASE c = "State" -> state [] c = "Year" -> year [] OTHER -> revenue]

\* the revenue of state s among n states: rising or falling with s, and equal to
\* that of state `tie` for state tie + 1
RankRevenue(n, tie, rising, s) ==
    LET t == IF tie > 0 /\ s = tie + 1 THEN tie ELSE s
    IN  10 * (IF rising THEN t ELSE n + 1 - t)

\* a table with one 2022 row per state 1..n; with `dup`, second rows of states 1
\* and n in 2022; and one 2021 row of state 1
RankTable(n, tie, rising, dup) ==
    [columns |-> {"State", "Year", revenue_col},
     rows |-> [s \in 1..n |-> RankRow(s, 2022, RankRevenue(n, tie, rising, s))]
              \o (IF dup /\ n > 0 THEN <<RankRow(1, 2022, 5), RankRow(n, 2022, 15)>> ELSE <<>>)
              \o (IF n > 0 THEN <<RankRow(1, 2021, 7)>> ELSE <<>>)]

RankTables ==
    {RankTable(n, tie, rising, dup) :
        n \in 0..MaxRankStates, tie \in 0..(MaxRankStates - 1), rising \in BOOLEAN, dup \in BOOLEAN}

NoTable == [columns |-> {}, rows |-> <<>>]

(***************************************************************************)
(* Direct calls of plot_expenditure_trends on tables long enough for the   *)
(* sort of line 104 to partition them.                                     *)
(***************************************************************************)
TrendColumns == {"State", "Year", health_col, edu_col}

\* the year of row k among n rows: rising or falling with k
TrendYear(n, falling, k) == IF falling THEN 2000 + n - k ELSE 2000 + k

\* row k of a table of n rows: of state 2 when k = other, else of state 1; its
\* year that of row i when k = j and 0 < i < j (a tie), else its own; its health
\* expenditure tells the rows apart
TrendRow(n, falling, i, j, other, k) ==
    [c \in TrendColumns |->
        CASE c = "State" -> IF k = other THEN 2 ELSE 1
          [] c = "Year" -> TrendYear(n, falling, IF 0 < i /\ i < j /\ k = j THEN i ELSE k)
          [] c = health_col -> 100 + k
          [] OTHER -> 40]

TrendTable(n, falling, i, j, other) ==
    [columns |-> TrendColumns,
     rows |-> [k \in 1..n |-> TrendRow(n, falling, i, j, other, k)]]

TrendTables ==
    UNION {{TrendTable(n, falling, i, j, other) :
               falling \in BOOLEAN, i \in 0..(n - 1), j \in (IF n = 0 THEN {0} ELSE 1..n), other \in {0, 1}} :
           n \in 0..MaxTrendRows}

(***************************************************************************)
(* The session: initial state and user interactions.                       *)
(***************************************************************************)
NoCache == [f \in {} |-> f]

\* what the next run remembers of the run it replaces
Summary(r) ==
    [load_failed |-> "df" \in r.bound /\ r.df = None,
     tab1_warned |-> r.tab1.msgs # <<>>]

\* a fresh session: the script has run once with no file uploaded
Init ==
    /\ uploaded_file = None
    /\ cache = NoCache
    /\ parse_count = NoCache
    /\ widgets = NoWidgets
    /\ run \in {o.run : o \in Script(None, NoCache, NoCache, NoWidgets)}
    /\ prev = [load_failed |-> FALSE, tab1_warned |-> FALSE]
    /\ uploads = 0
    /\ rank_df = NoTable
    /\ rank_year = 0
    /\ rank_out = NotCalled
    /\ trend_df = NoTable
    /\ trend_state = 0
    /\ trend_out = NotCalled

\* the script re-runs with the given upload and widget values, to its end or
\* until the next interaction stops it; sessions are followed as long as no file
\* has been parsed MaxParses times without its result being stored
Rerun(file, w) ==
    /\ IF file = None THEN TRUE
       ELSE \/ CacheKey(file[1]) \in DOMAIN cache
            \/ Parses(parse_count, CacheKey(file[1])) < MaxParses
    /\ \E o \in Script(file, cache, parse_count, w) \cup Superseded(file, cache, parse_count, w) :
        /\ uploaded_file' = file
        /\ cache' = o.cache
        /\ parse_count' = o.parse_count
        /\ widgets' = o.widgets
        /\ run' = o.run
        /\ prev' = Summary(run)
        /\ UNCHANGED <<rank_df, rank_year, rank_out, trend_df, trend_state, trend_out>>

\* the user uploads a file under a name (replacing the current one, if any)
Upload(name, f) ==
    /\ uploads' = uploads + 1
    /\ Rerun(Some(UploadedFile(name, f)), widgets)

\* the user removes the uploaded file
RemoveFile ==
    /\ uploaded_file # None
    /\ UNCHANGED uploads
    /\ Rerun(None, widgets)

\* the user picks another state in the selectbox
SelectState(s) ==
    /\ widgets.state # None
    /\ s \in Range(widgets.state[1].options)
    /\ s # widgets.state[1].value
    /\ UNCHANGED uploads
    /\ Rerun(uploaded_file, [widgets EXCEPT !.state[1].value = s])

\* the user moves the year slider
SelectYear(y) ==
    /\ widgets.year # None
    /\ y \in Range(widgets.year[1].options)
    /\ y # widgets.year[1].value
    /\ UNCHANGED uploads
    /\ Rerun(uploaded_file, [widgets EXCEPT !.year[1].value = y])

\* sessions with several uploads, over the small file pool
Next ==
    \/ \E name \in Names, f \in SessionFiles : uploads < MaxUploads /\ Upload(name, f)
    \/ RemoveFile
    \/ \E s \in States : SelectState(s)
    \/ \E y \in Years : SelectYear(y)

Spec == Init /\ [][Next]_vars

\* sessions with one upload (under one name), over all files
NextViews ==
    \/ \E f \in Files : uploads = 0 /\ Upload("a.csv", f)
    \/ \E s \in States : SelectState(s)
    \/ \E y \in Years : SelectYear(y)

SpecViews == Init /\ [][NextViews]_vars

\* a direct call of plot_revenue_rankings
InitRank ==
    /\ uploaded_file = None
    /\ cache = NoCache
    /\ parse_count = NoCache
    /\ widgets = NoWidgets
    /\ run \in {o.run : o \in Script(None, NoCache, NoCache, NoWidgets)}
    /\ prev = [load_failed |-> FALSE, tab1_warned |-> FALSE]
    /\ uploads = 0
    /\ rank_df \in RankTables
    /\ rank_year \in RankYears
    /\ rank_out = NotCalled
    /\ trend_df = NoTable
    /\ trend_state = 0
    /\ trend_out = NotCalled

CallRankings ==
    /\ ~rank_out.called
    /\ rank_out' \in plot_revenue_rankings(rank_df, rank_year)
    /\ UNCHANGED <<uploaded_file, cache, parse_count, widgets, run, prev, uploads, rank_df, rank_year,
                   trend_df, trend_state, trend_out>>

NextRank == CallRankings

SpecRank == InitRank /\ [][NextRank]_vars

\* direct calls of plot_expenditure_trends
InitTrends ==
    /\ uploaded_file = None
    /\ cache = NoCache
    /\ parse_count = NoCache
    /\ widgets = NoWidgets
    /\ run \in {o.run : o \in Script(None, NoCache, NoCache, NoWidgets)}
    /\ prev = [load_failed |-> FALSE, tab1_warned |-> FALSE]
    /\ uploads = 0
    /\ rank_df = NoTable
    /\ rank_year = 0
    /\ rank_out = NotCalled
    /\ trend_df \in TrendTables
    /\ trend_state \in States
    /\ trend_out = NotCalled

CallTrends ==
    /\ ~trend_out.called
    /\ trend_out' \in plot_expenditure_trends(trend_df, trend_state)
    /\ UNCHANGED <<uploaded_file, cache, parse_count, widgets, run, prev, uploads,
                   rank_df, rank_year, rank_out, trend_df, trend_state>>

NextTrends == CallTrends

SpecTrends == InitTrends /\ [][NextTrends]_vars

(***************************************************************************)
(* Properties.                                                             *)
(***************************************************************************)
\* the run ran to its end (it returned, stopped itself or raised): no interaction
\* superseded it
Ended == run.status # "aborted"

\* the run went past the sidebar with a table and both selections
ViewsRun == run.tabs_reached /\ "selected_year" \in run.bound

\* the content of the uploaded file
Content(file) == [header |-> file.header, lines |-> file.lines]

LoadErrorMsg == Msg("error", "Error loading data", <<>>)

SchemaErrorMsg == Msg("error", "Required expenditure columns not found", <<>>)

AnyViewCalled == run.tab1.called \/ run.tab2.called \/ run.tab3.called

\* the rows of the run's table that match the selected state and year
MatchingRows ==
    SelectSeq(run.df[1].rows, LAMBDA r : r["State"] = run.selected_state[1]
                                         /\ r["Year"] = run.selected_year[1])

\* C1: in a run (not superseded) where a file is uploaded but load_data yields no
\* table, the load error is reported, no table is available, no view is invoked
\* and the run does not end in an unhandled exception; views are invoked only in
\* runs whose upload parsed successfully.
C1_LoadFailureInert ==
    /\ (Ended /\ uploaded_file # None /\ read_csv_raises(uploaded_file[1])) =>
          /\ run.df = None
          /\ LoadErrorMsg \in Range(run.sidebar)
          /\ ~AnyViewCalled
          /\ run.status # "exception"
    /\ AnyViewCalled => (uploaded_file # None /\ ~read_csv_raises(uploaded_file[1]))

\* the numeric columns a view reads
Needs(tab) ==
    CASE tab = "tab1" -> {revenue_col, expenditure_col}
      [] tab = "tab2" -> {health_col, edu_col}
      [] tab = "tab3" -> {revenue_col}

\* C2: in a run (not superseded) over a loaded table, an absent numeric column is
\* reported and is no crash: every view is invoked, a view whose columns are all
\* present is rendered, and a view that lacks a column reports an error and draws
\* nothing.
C2_MissingColumnReported ==
    (Ended /\ ViewsRun) =>
       /\ run.status # "exception"
       /\ \A tab \in {"tab1", "tab2", "tab3"} :
             LET t == run[tab]
             IN  /\ t.called
                 /\ t.raised = NoException
                 /\ (Needs(tab) \subseteq run.df[1].columns) => \A i \in DOMAIN t.msgs : t.msgs[i].kind # "error"
                 /\ ~(Needs(tab) \subseteq run.df[1].columns) =>
                        (t.charts = <<>> /\ \E i \in DOMAIN t.msgs : t.msgs[i].kind = "error")

\* the table with the two expenditure-detail columns added where they are absent
WithExpenditureCols(df) ==
    [columns |-> df.columns \cup {health_col, edu_col},
     rows |-> [i \in DOMAIN df.rows |->
                 [c \in DOMAIN df.rows[i] \cup {health_col, edu_col} |->
                     IF c \in DOMAIN df.rows[i] THEN df.rows[i][c]
                     ELSE CHOOSE v \in ColumnValues(c) : TRUE]]]

LacksExpenditureCol ==
    Ended /\ ViewsRun /\ (health_col \notin run.df[1].columns \/ edu_col \notin run.df[1].columns)

\* C3: in a run (not superseded) whose table lacks the health or the education column,
\* plot_expenditure_trends emits for any state exactly one error and no chart
\* (never the no-rows warning), and the other two tabs of the run are what they
\* are for the same table with the columns present.
C3_TrendsSchemaError ==
    LacksExpenditureCol =>
       /\ \A s \in States : plot_expenditure_trends(run.df[1], s) = {Returned(<<SchemaErrorMsg>>, <<>>)}
       /\ run.tab1 \in plot_revenue_vs_expenditure(WithExpenditureCols(run.df[1]),
                                                   run.selected_state[1], run.selected_year[1])
       /\ run.tab1.raised = NoException =>
             /\ run.tab2 = Returned(<<SchemaErrorMsg>>, <<>>)
             /\ run.tab3 \in plot_revenue_rankings(WithExpenditureCols(run.df[1]), run.selected_year[1])

C3_Witness ==
    /\ LacksExpenditureCol
    /\ run.tab2 = Returned(<<SchemaErrorMsg>>, <<>>)
    /\ run.tab1.charts # <<>>
    /\ run.tab3.charts # <<>>
    /\ \E s \in States : s \notin Range(run.states)

\* C4: when the selected (state, year) matches no row, the first view shows exactly
\* one warning, no chart and raises nothing; the other two views of the run are
\* invoked as usual, and a later selection that matches rows is charted (runs that
\* are not superseded).
C4_EmptyResultWarning ==
    /\ (Ended /\ ViewsRun /\ MatchingRows = <<>>) =>
          /\ run.tab1 = Returned(<<Msg("warning", "No data available for state in year",
                                       <<run.selected_state[1], run.selected_year[1]>>)>>, <<>>)
          /\ run.status = "completed"
          /\ run.tab2.called /\ (run.tab2.charts # <<>> \/ run.tab2.msgs = <<SchemaErrorMsg>>)
          /\ run.tab3.called /\ run.tab3.charts # <<>>
    /\ (Ended /\ ViewsRun /\ prev.tab1_warned /\ MatchingRows # <<>>) =>
          (run.tab1.msgs = <<>> /\ Len(run.tab1.charts) = 1)

\* C5: the two bars of the first view equal the sums of Totals.Revenue and of
\* Totals.Expenditure over the rows matching the selected state and year.
C5_BarsAreSums ==
    (ViewsRun /\ run.tab1.charts # <<>>) =>
        run.tab1.charts[1] =
           <<[Metric |-> "Revenue",
              Amount |-> [num |-> SumSeq(Column(MatchingRows, revenue_col)), den |-> 1]],
             [Metric |-> "Expenditure",
              Amount |-> [num |-> SumSeq(Column(MatchingRows, expenditure_col)), den |-> 1]]>>

\* the number of distinct states among the rows of a year
StatesOfYear(df, year) == {df.rows[i]["State"] : i \in {j \in DOMAIN df.rows : df.rows[j]["Year"] = year}}

\* the revenue of a state in a year, summed over the table's rows
RevenueOf(df, year, state) ==
    LET I == {i \in DOMAIN df.rows : df.rows[i]["Year"] = year /\ df.rows[i]["State"] = state}
        idx == sorted(CHOOSE q \in [1..Cardinality(I) -> I] : \A a, b \in DOMAIN q : a # b => q[a] # q[b])
    IN  SumSeq([k \in DOMAIN idx |-> df.rows[idx[k]][revenue_col]])

RankedChart == rank_out.called /\ rank_out.charts # <<>>

\* C6: plot_revenue_rankings sums Totals.Revenue per state over the rows of the
\* year; the top list is sorted descending, has min(10, distinct states) entries
\* and starts with the highest sum; the bottom list is sorted ascending and starts
\* with the lowest sum; with at least 20 distinct states the lists share no state.
C6_Rankings ==
    RankedChart =>
       LET top == rank_out.charts[1].top
           bottom == rank_out.charts[1].bottom
           S == StatesOfYear(rank_df, rank_year)
           sumsOK(l) == \A i \in DOMAIN l :
                           /\ l[i].State \in S
                           /\ l[i].Revenue = RevenueOf(rank_df, rank_year, l[i].State)
       IN  /\ sumsOK(top) /\ sumsOK(bottom)
           /\ \A i, j \in DOMAIN top : i < j => top[i].Revenue >= top[j].Revenue
           /\ \A i, j \in DOMAIN top : i # j => top[i].State # top[j].State
           /\ Len(top) = Min2(10, Cardinality(S))
           /\ \A s \in S : RevenueOf(rank_df, rank_year, s) <= top[1].Revenue
           /\ \A i, j \in DOMAIN bottom : i < j => bottom[i].Revenue <= bottom[j].Revenue
           /\ \A s \in S : RevenueOf(rank_df, rank_year, s) >= bottom[1].Revenue
           /\ Cardinality(S) >= 20 =>
                 {top[i].State : i \in DOMAIN top} \cap {bottom[i].State : i \in DOMAIN bottom} = {}

C6_Witness ==
    /\ RankedChart
    /\ Cardinality(StatesOfYear(rank_df, rank_year)) >= 20
    /\ Len(rank_out.charts[1].top) = 10
    /\ Len(rank_out.charts[1].bottom) = 10
    /\ \E i \in DOMAIN rank_out.charts[1].top :
          rank_out.charts[1].top[i].Revenue = rank_out.charts[1].bottom[10].Revenue

\* C7: a successfully parsed upload is parsed once however often the page
\* re-runs while it is present, and the table a run uses is the one parsed from
\* the content that is uploaded during that run.
C7_ParsedOnce ==
    /\ \A k \in DOMAIN parse_count :
          ~read_csv_raises(k.value) => (parse_count[k] = 1 /\ k \in DOMAIN cache)
    /\ \A k \in DOMAIN cache : cache[k] = load_data(k.value)
    /\ (uploaded_file # None /\ "df" \in run.bound) =>
          /\ CacheKey(uploaded_file[1]) \in DOMAIN cache
          /\ run.df = IF read_csv_raises(Content(uploaded_file[1])) THEN None
                      ELSE Some(read_csv(Content(uploaded_file[1])))
    /\ (Ended /\ uploaded_file # None) => "df" \in run.bound

\* a second upload is in use, parsed once, after the user changed a selector and
\* the page re-ran to its end
C7_Witness ==
    /\ Ended
    /\ Cardinality(DOMAIN cache) = 2
    /\ uploaded_file # None
    /\ run.df # None
    /\ widgets.state # None
    /\ widgets.state[1].value # widgets.state[1].options[1]
    /\ run.selected_state = Some(widgets.state[1].value)
    /\ parse_count[CacheKey(uploaded_file[1])] = 1

\* C8: for a loaded table with rows, the year options are the distinct Year values
\* in ascending order and the slider's default is their maximum (in every run
\* that gets as far as the slider, which every run not superseded does).
C8_DefaultYearIsMax ==
    /\ (Ended /\ "df" \in run.bound /\ run.df # None /\ run.df[1].rows # <<>>) =>
          "selected_year" \in run.bound
    /\ "selected_year" \in run.bound =>
          LET Y == Range(Column(run.df[1].rows, "Year"))
          IN  /\ Range(run.years) = Y
              /\ \A i, j \in DOMAIN run.years : i < j => run.years[i] < run.years[j]
              /\ run.default_year = Some(SetMax(Y))
              /\ run.selected_year # None
              /\ run.selected_year[1] \in Y

\* the table lists a later year before an earlier one
C8_Witness ==
    /\ Ended
    /\ run.default_year # None
    /\ Len(run.df[1].rows) >= 2
    /\ run.df[1].rows[1]["Year"] > run.df[1].rows[2]["Year"]
    /\ run.default_year[1] = run.df[1].rows[1]["Year"]

\* the rows of the table handed to plot_expenditure_trends that are of the state
TrendRows == SelectSeq(trend_df.rows, LAMBDA r : r["State"] = trend_state)

\* rows ordered by Year with rows of equal Year in their original order
StableByYear(rows) ==
    LET keys == Column(rows, "Year")
        p == CHOOSE q \in Orders(keys, DOMAIN rows) :
                \A a, b \in DOMAIN q : (a < b /\ keys[q[a]] = keys[q[b]]) => q[a] < q[b]
    IN  [i \in DOMAIN rows |-> rows[p[i]]]

TrendsCharted == trend_out.called /\ trend_out.charts # <<>>

\* C9 as stated: the rows plot_expenditure_trends hands to its line charts are the
\* table's rows of the state ordered by Year, rows of equal Year in their original
\* table order.
C9_StableYearOrder ==
    TrendsCharted =>
       \A k \in DOMAIN trend_out.charts : trend_out.charts[k].data = StableByYear(TrendRows)

\* C9 as amended: the rows plot_expenditure_trends hands to its line charts are
\* exactly the table's rows of the state (each as often as the table has it),
\* non-decreasing in Year; the order among rows of equal Year is not determined,
\* and the charts do not show it: each draws one point per Year of the state, in
\* ascending order, at the mean of that Year's rows.
C9_SortedByYear ==
    TrendsCharted =>
       \A k \in DOMAIN trend_out.charts :
          LET data == trend_out.charts[k].data
              points == trend_out.charts[k].points
              col == trend_out.charts[k].y
          IN  /\ \A i, j \in DOMAIN data : i < j => data[i]["Year"] <= data[j]["Year"]
              /\ Len(data) = Len(TrendRows)
              /\ \A r \in Range(data) \cup Range(TrendRows) :
                    Cardinality({i \in DOMAIN data : data[i] = r})
                       = Cardinality({i \in DOMAIN TrendRows : TrendRows[i] = r})
              /\ {points[i].Year : i \in DOMAIN points} = Range(Column(TrendRows, "Year"))
              /\ \A i, j \in DOMAIN points : i < j => points[i].Year < points[j].Year
              /\ \A i \in DOMAIN points :
                    LET I == {n \in DOMAIN TrendRows : TrendRows[n]["Year"] = points[i].Year}
                        total == SumSeq(Column(SelectSeq(TrendRows, LAMBDA r : r["Year"] = points[i].Year), col))
                    IN  /\ points[i].Amount.num * Cardinality(I) = total * points[i].Amount.den
                        /\ points[i].band = (Cardinality(I) > 1)

\* the sort moved rows of a table that has two rows of the state in the same year
\* (drawn as one point) and is long enough to be partitioned
C9_Witness ==
    /\ TrendsCharted
    /\ Len(TrendRows) = MaxTrendRows
    /\ \E i, j \in DOMAIN TrendRows : i < j /\ TrendRows[i]["Year"] = TrendRows[j]["Year"]
    /\ TrendRows[1]["Year"] > TrendRows[2]["Year"]
    /\ trend_out.charts[1].data # TrendRows
    /\ trend_out.charts[1].data # StableByYear(TrendRows)
    /\ Len(trend_out.charts[1].points) < Len(trend_out.charts[1].data)
    /\ \E i \in DOMAIN trend_out.charts[1].points : trend_out.charts[1].points[i].band

IsWarning(m) == m.kind = "warning"

\* C10: in every run that reaches the tabs the selected state and year are members
\* of the state and year lists resolved from the table of that run, so the
\* no-rows warnings of plot_expenditure_trends and plot_revenue_rankings are never
\* shown by the page.
C10_SelectionResolved ==
    run.tabs_reached =>
       /\ {"selected_state", "selected_year", "states", "years"} \subseteq run.bound
       /\ run.df # None
       /\ Range(run.states) = Range(Column(run.df[1].rows, "State"))
       /\ Range(run.years) = Range(Column(run.df[1].rows, "Year"))
       /\ run.selected_state # None /\ run.selected_state[1] \in Range(run.states)
       /\ run.selected_year # None /\ run.selected_year[1] \in Range(run.years)
       /\ SelectSeq(run.tab2.msgs, IsWarning) = <<>>
       /\ SelectSeq(run.tab3.msgs, IsWarning) = <<>>

====
